---- MODULE Spec2Model ----
(***************************************************************************)
(* Model of the image-generation front-end (src/index.tsx, the variant    *)
(* with the per-card upscale flow, and src/unnamed/part_000, the variant   *)
(* with the quality selector).  Every handler runs to its next await as    *)
(* one atomic step, as the single UI thread runs it.  Strings are          *)
(* sequences of one-character strings.                                     *)
(***************************************************************************)
EXTENDS Integers, Sequences, FiniteSets, TLC

\* ------------------------------------------------------------------ bounds

\* generate() calls that reach an await (API request or key dialog)
MaxCalls == 2
\* upscaleImage() calls that reach an await
MaxUpscales == 2

\* ------------------------------------------------------- program constants

\* `if (history.length > 50) history.pop()`
HistoryCap == 50

HistoryKey == "image-gen-history"

\* the text appended to the prompt when the quality selector holds "high",
\* kept as one unit of text
QualitySuffix ==
  <<", 8k, photorealistic, ultra high detail, sharp focus, professional photography">>

\* ------------------------------------------------------------------ strings

WhiteSpace == {" ", "\n"}

RECURSIVE TrimStart(_)
TrimStart(s) ==
  IF s # <<>> /\ Head(s) \in WhiteSpace THEN TrimStart(Tail(s)) ELSE s

RECURSIVE TrimEnd(_)
TrimEnd(s) ==
  IF s # <<>> /\ s[Len(s)] \in WhiteSpace
  THEN TrimEnd(SubSeq(s, 1, Len(s) - 1))
  ELSE s

noTrim(s) == s

\* String.prototype.trim
Trim(s) == TrimEnd(TrimStart(s))

\* ------------------------------------------------------------------ JSON

EscapeChar(c) ==
  IF c = "\"" THEN <<"\\", "\"">>
  ELSE IF c = "\\" THEN <<"\\", "\\">>
  ELSE IF c = "\n" THEN <<"\\", "n">>
  ELSE <<c>>

UnescapeChar(c) == IF c = "n" THEN "\n" ELSE c

RECURSIVE QuoteChars(_)
QuoteChars(s) ==
  IF s = <<>> THEN <<>> ELSE EscapeChar(Head(s)) \o QuoteChars(Tail(s))

StringifyString(s) == <<"\"">> \o QuoteChars(s) \o <<"\"">>

RECURSIVE StringifyElems(_)
StringifyElems(h) ==
  IF Len(h) = 0 THEN <<>>
  ELSE IF Len(h) = 1 THEN StringifyString(h[1])
  ELSE LET m == Len(h) \div 2
       IN  StringifyElems(SubSeq(h, 1, m)) \o <<",">>
             \o StringifyElems(SubSeq(h, m + 1, Len(h)))

\* JSON.stringify of an array of strings
JSONstringify(h) == <<"[">> \o StringifyElems(h) \o <<"]">>

\* the number of backslashes that end at position i of t
RECURSIVE BackslashRun(_, _)
BackslashRun(t, i) ==
  IF i >= 1 /\ t[i] = "\\" THEN 1 + BackslashRun(t, i - 1) ELSE 0

\* the positions of the quotes that open or close a string literal of t
QuotePositions(t) ==
  LET IsQuote(i) == t[i] = "\"" /\ BackslashRun(t, i - 1) % 2 = 0
  IN  SelectSeq([i \in 1..Len(t) |-> i], IsQuote)

\* the string a literal's inner text stands for
RECURSIVE UnquoteChars(_)
UnquoteChars(s) ==
  IF s = <<>> THEN <<>>
  ELSE IF Head(s) = "\\"
  THEN <<UnescapeChar(s[2])>> \o UnquoteChars(SubSeq(s, 3, Len(s)))
  ELSE <<Head(s)>> \o UnquoteChars(Tail(s))

\* JSON.parse of the text of an array of strings
JSONparse(t) ==
  LET q == QuotePositions(t)
  IN  [k \in 1..(Len(q) \div 2) |->
         UnquoteChars(SubSeq(t, q[2 * k - 1] + 1, q[2 * k] - 1))]

\* ------------------------------------------------------------------ inputs

Digit == <<"0", "1", "2", "3", "4", "5", "6", "7", "8", "9">>

\* the i-th prompt of a long stored history
StoredPrompt(i) == <<"p", Digit[(i \div 10) + 1], Digit[(i % 10) + 1]>>

Cat == <<"c", "a", "t">>
Dog == <<"d", "o", "g">>
RedFox == <<"a", " ", "r", "e", "d", " ", "f", "o", "x">>
Quoted == <<"q", "\"", "\\", "\n", "z">>

\* a stored history of n entries: ["cat","dog","q\"\\\nz","p04",...]
StoredHistory(n) ==
  [i \in 1..n |->
     IF i = 1 THEN Cat
     ELSE IF i = 2 THEN Dog
     ELSE IF i = 3 THEN Quoted
     ELSE StoredPrompt(i)]

NoStorage == [k \in {} |-> <<>>]

\* what local storage may hold when the page loads
InitStorages ==
  {NoStorage}
    \cup {[k \in {HistoryKey} |-> JSONstringify(StoredHistory(n))] :
            n \in {HistoryCap - 1, HistoryCap}}

\* stored histories longer than the page itself ever stores (left by another
\* version of the page, or edited by hand)
OversizedStorages ==
  {[k \in {HistoryKey} |-> JSONstringify(StoredHistory(n))] :
     n \in {HistoryCap + 1, HistoryCap + 2}}

\* what the user may type into the prompt field (which is empty at first)
TypedValues == {<<" ", "\n">>, <<" ">> \o Dog \o <<"\n">>, RedFox}

\* the history items the user clicks: the first and the last
ClickedItems(list) == {1, Len(list)} \cap DOMAIN list

Formats == {"image/jpeg", "image/png"}

\* how many images an API response may carry
ImageCounts == {0, 1, 2}

\* what a rejected API promise may carry
ApiErrors ==
  {[isError |-> TRUE, message |-> "403 permission denied"],
   [isError |-> TRUE, message |-> "Failed to fetch"],
   [isError |-> FALSE, message |-> "aborted"]}

\* ------------------------------------------------------------------- state

VARIABLES
  variant,       \* "upscale": src/index.tsx; "quality": src/unnamed/part_000
  apiKey,        \* process.env.API_KEY is set
  promptValue,   \* promptEl.value
  formatValue,   \* formatSelect.value
  qualityValue,  \* qualitySelect.value (quality variant)
  controls,      \* the disabled flag of each form control
  loading,       \* the loading overlay is shown (its class "hidden" is off)
  status,        \* the content of statusEl
  history,       \* the in-memory history
  localStorage,  \* key -> stored text
  historyList,   \* the prompts of the rendered history items
  results,       \* the cards of resultsGridEl, in document order
  calls,         \* the generate() calls suspended at an await
  started,       \* how many generate() calls have reached an await
  upscales,      \* the upscaleImage() calls suspended at an await
  upscaled,      \* how many upscaleImage() calls have reached an await
  lastEvent      \* what the last handler step did

vars ==
  <<variant, apiKey, promptValue, formatValue, qualityValue, controls, loading,
    status, history, localStorage, historyList, results, calls, started,
    upscales, upscaled, lastEvent>>

Variants == {"upscale", "quality"}

\* the six controls setControlsDisabled sets
ControlNames ==
  {"generateButton", "promptEl", "aspectRatioSelect", "numImagesSelect",
   "formatSelect",
   IF variant = "upscale" THEN "resolutionSelect" ELSE "qualitySelect"}

\* ------------------------------------------------------------------ helpers

setControlsDisabled(disabled) == [c \in ControlNames |-> disabled]

\* statusEl.innerText = text
StatusText(text) ==
  [text |-> IF text = "" THEN <<>> ELSE <<text>>, retry |-> FALSE]

\* statusEl.innerText = text, whatever statusEl held before
setInnerText(before, text) == StatusText(text)

showStatusErrorAlwaysRetry(message, retry) == [text |-> message, retry |-> TRUE]

\* the content of statusEl after showStatusError(message, retry)
showStatusError(message, retry) == [text |-> message, retry |-> retry]

\* an event of the kinds that are not a step of generate() or upscaleImage()
Event(kind) ==
  [kind |-> kind, prompt |-> <<>>, present |-> FALSE, prevLen |-> 0, n |-> 0,
   message |-> "", card |-> 0]

getItem(key) == IF key \in DOMAIN localStorage THEN localStorage[key] ELSE <<>>

includes(h, p) == \E i \in DOMAIN h : h[i] = p

unshiftAtBack(h, p) == h \o <<p>>

\* h after h.unshift(p)
unshift(h, p) == <<p>> \o h

pop(h) == SubSeq(h, 1, Len(h) - 1)

recordPromptNoDedup(h, p) ==
  LET h1 == unshift(h, p)
  IN  IF Len(h1) > HistoryCap THEN pop(h1) ELSE h1

recordPromptNoCap(h, p) == IF ~includes(h, p) THEN unshift(h, p) ELSE h

recordPromptMoveToFront(h, p) ==
  LET h1 == unshift(SelectSeq(h, LAMBDA q : q # p), p)
  IN  IF Len(h1) > HistoryCap THEN pop(h1) ELSE h1

\* the history after a successful generation of prompt p
recordPrompt(h, p) ==
  IF ~includes(h, p)
  THEN LET h1 == unshift(h, p)
       IN  IF Len(h1) > HistoryCap THEN pop(h1) ELSE h1
  ELSE h

\* `error instanceof Error ? error.message : 'An unknown error occurred.'`
errorMessage(error) ==
  IF error.isError THEN error.message ELSE "An unknown error occurred."

NoImagesError ==
  [isError |-> TRUE,
   message |-> "No images were generated. The prompt may have been blocked."]

\* no upscale of the card has failed yet
NoAttempt == [data |-> <<>>, mime |-> "", factor |-> 0]

\* the card createImageCard appends; `failed` records the arguments of the
\* card's last failed upscale
createImageCard(base64, prompt, format) ==
  IF variant = "upscale"
  THEN [src |-> [mime |-> format, data |-> base64], alt |-> prompt,
        hasSelect |-> TRUE, selectValue |-> "2x", selectDisabled |-> FALSE,
        buttonDisabled |-> FALSE, buttonText |-> "Upscale", opacity |-> "",
        onclick |-> [kind |-> "upscale", data |-> base64, mime |-> format,
                     factor |-> 0],
        failed |-> NoAttempt]
  ELSE [src |-> [mime |-> format, data |-> base64], alt |-> prompt,
        hasSelect |-> FALSE, selectValue |-> "", selectDisabled |-> FALSE,
        buttonDisabled |-> FALSE, buttonText |-> "Download", opacity |-> "",
        onclick |-> [kind |-> "download", data |-> base64, mime |-> format,
                     factor |-> 0],
        failed |-> NoAttempt]

\* the bytes of the i-th image of a response
ImageBytes(i) == <<"img", i>>

\* ------------------------------------------------------------ initial state

\* the history loadHistory leaves, given the stored text (empty text and a
\* missing item are both falsy)
loadHistoryNothing(stored) == <<>>

loadHistory(stored) == IF stored # <<>> THEN JSONparse(stored) ELSE <<>>

\* the page after loadHistory(); renderHistory(); setupEventListeners(), when
\* local storage holds one of `storages`
InitWith(storages) ==
  /\ variant \in Variants
  /\ apiKey \in BOOLEAN
  /\ localStorage \in storages
  /\ history = loadHistory(getItem(HistoryKey))
  /\ historyList = history
  /\ promptValue = <<>>
  /\ formatValue = "image/jpeg"
  /\ qualityValue = "standard"
  /\ controls = setControlsDisabled(FALSE)
  /\ loading = FALSE
  /\ status = StatusText("")
  /\ results = <<>>
  /\ calls = {}
  /\ started = 0
  /\ upscales = {}
  /\ upscaled = 0
  /\ lastEvent = Event("init")

\* the page when local storage holds nothing or what the page has stored
Init == InitWith(InitStorages)

\* ------------------------------------------------------------ the user's input

\* the user edits the prompt field
TypePrompt(v) ==
  /\ ~controls["promptEl"]
  /\ promptValue' = v
  /\ lastEvent' = Event("input")
  /\ UNCHANGED <<variant, apiKey, formatValue, qualityValue, controls, loading,
                 status, history, localStorage, historyList, results, calls,
                 started, upscales, upscaled>>

\* the user picks an output format
SelectFormat(f) ==
  /\ ~controls["formatSelect"]
  /\ formatValue' = f
  /\ lastEvent' = Event("input")
  /\ UNCHANGED <<variant, apiKey, promptValue, qualityValue, controls, loading,
                 status, history, localStorage, historyList, results, calls,
                 started, upscales, upscaled>>

\* the user picks a quality (the quality variant has the selector)
SelectQuality(q) ==
  /\ variant = "quality"
  /\ ~controls["qualitySelect"]
  /\ qualityValue' = q
  /\ lastEvent' = Event("input")
  /\ UNCHANGED <<variant, apiKey, promptValue, formatValue, controls, loading,
                 status, history, localStorage, historyList, results, calls,
                 started, upscales, upscaled>>

\* ------------------------------------------------------------------ generate

\* the prompt sent to the API
finalPrompt(userPrompt) ==
  IF variant = "quality" /\ qualityValue = "high"
  THEN userPrompt \o QualitySuffix
  ELSE userPrompt

\* generate() up to its first await (or its return), called through `via`
\* with promptEl.value = value and the results grid holding `grid`
\* (`fromHistory` records that a history item's handler has made the call)
generate(via, value, grid) ==
  LET prompt == Trim(value)
      ev(kind) == [Event(kind) EXCEPT !.prompt = prompt]
  IN
  /\ IF ~apiKey
     THEN \E hook \in BOOLEAN :
            IF hook
            THEN \* await window.aistudio.openSelectKey()
                 /\ started < MaxCalls
                 /\ status' =
                      showStatusError(
                        <<"API key is not configured. Please add your API key.">>,
                        FALSE)
                 /\ calls' = calls \cup
                      {[id |-> started + 1, pc |-> "dialog", prompt |-> <<>>,
                        finalPrompt |-> <<>>, format |-> "",
                        fromHistory |-> via = "history"]}
                 /\ started' = started + 1
                 /\ lastEvent' = ev("noKeyDialog")
                 /\ results' = grid
                 /\ UNCHANGED <<controls, loading>>
            ELSE /\ status' =
                      showStatusError(
                        <<"API key selection is not available. Please configure the API_KEY environment variable.">>,
                        FALSE)
                 /\ lastEvent' = ev("noKeyStatic")
                 /\ results' = grid
                 /\ UNCHANGED <<controls, loading, calls, started>>
     ELSE IF prompt = <<>>
     THEN /\ status' = showStatusError(<<"Please enter a prompt.">>, FALSE)
          /\ lastEvent' = ev("emptyPrompt")
          /\ results' = grid
          /\ UNCHANGED <<controls, loading, calls, started>>
     ELSE \* await generateImage(...)
          /\ started < MaxCalls
          /\ loading' = TRUE
          /\ controls' = setControlsDisabled(TRUE)
          /\ results' = IF variant = "quality" THEN <<>> ELSE grid
          /\ status' = setInnerText(setInnerText(status, ""), "Generating images...")
          /\ calls' = calls \cup
               {[id |-> started + 1, pc |-> "api", prompt |-> prompt,
                 finalPrompt |-> finalPrompt(prompt), format |-> formatValue,
                 fromHistory |-> via = "history"]}
          /\ started' = started + 1
          /\ lastEvent' = ev("requested")
  /\ UNCHANGED <<variant, apiKey, formatValue, qualityValue, history,
                 localStorage, historyList, upscales, upscaled>>

\* a click on the generate button, or on the retry button of the status area
ClickGenerate ==
  /\ \E via \in {"button", "retry"} :
       /\ IF via = "button" THEN ~controls["generateButton"] ELSE status.retry
       /\ generate(via, promptValue, results)
  /\ UNCHANGED promptValue

\* Enter (without Shift) in the prompt field
PressEnter ==
  /\ ~controls["promptEl"]
  /\ generate("enter", promptValue, results)
  /\ UNCHANGED promptValue

\* a click on the i-th history item
ClickHistoryItem(i) ==
  /\ i \in ClickedItems(historyList)
  /\ promptValue' = historyList[i]
  /\ generate("history", historyList[i],
              IF variant = "quality" THEN <<>> ELSE results)

\* the key-selection dialog of a call closes, and the call returns
DialogClosed(c) ==
  /\ c \in calls
  /\ c.pc = "dialog"
  /\ calls' = calls \ {c}
  /\ lastEvent' = Event("dialogClosed")
  /\ UNCHANGED <<variant, apiKey, promptValue, formatValue, qualityValue,
                 controls, loading, status, history, localStorage, historyList,
                 results, started, upscales, upscaled>>

\* the cards generateImage appends for a response of n images
newCardsFirstOnly(c, n) ==
  [i \in 1..1 |->
     createImageCard(ImageBytes(i), c.finalPrompt, c.format) @@ [call |-> c.id]]

\* (`call` records which generate() call has produced the card)
newCards(c, n) ==
  [i \in 1..n |->
     createImageCard(ImageBytes(i), c.finalPrompt, c.format) @@ [call |-> c.id]]

FailedWithoutFinally(c, error, kind, grid) ==
  /\ calls' = calls \ {c}
  /\ results' = grid
  /\ status' =
       showStatusError(<<"Generation failed: ", errorMessage(error)>>, TRUE)
  /\ lastEvent' =
       [Event(kind) EXCEPT !.prompt = c.prompt, !.message = errorMessage(error),
                           !.present = includes(history, c.prompt),
                           !.prevLen = Len(history)]
  /\ UNCHANGED <<variant, apiKey, promptValue, formatValue, qualityValue,
                 controls, loading, history, localStorage, historyList, started,
                 upscales, upscaled>>

\* the rest of a call whose request failed with `error`: catch, then finally
\* (the finally block's `statusEl.innerText = ''` replaces what the catch
\* block has shown)
Failed(c, error, kind, grid) ==
  LET afterCatch ==
        showStatusError(<<"Generation failed: ", errorMessage(error)>>, TRUE)
  IN
  /\ calls' = calls \ {c}
  /\ results' = grid
  /\ loading' = FALSE
  /\ controls' = setControlsDisabled(FALSE)
  /\ status' = setInnerText(afterCatch, "")
  /\ lastEvent' =
       [Event(kind) EXCEPT !.prompt = c.prompt, !.message = errorMessage(error),
                           !.present = includes(history, c.prompt),
                           !.prevLen = Len(history)]
  /\ UNCHANGED <<variant, apiKey, promptValue, formatValue, qualityValue,
                 history, localStorage, historyList, started, upscales, upscaled>>

\* the API answers the request of call c with n images
ApiResolveNoCheck(c, n) ==
  /\ c \in calls
  /\ c.pc = "api"
  /\ calls' = calls \ {c}
  /\ results' = results \o newCards(c, n)
  /\ history' = recordPrompt(history, c.prompt)
  /\ IF ~includes(history, c.prompt)
     THEN /\ localStorage' =
               [k \in DOMAIN localStorage \cup {HistoryKey} |->
                  IF k = HistoryKey THEN JSONstringify(history')
                  ELSE localStorage[k]]
          /\ historyList' = history'
     ELSE UNCHANGED <<localStorage, historyList>>
  /\ loading' = FALSE
  /\ controls' = setControlsDisabled(FALSE)
  /\ status' = setInnerText(status, "")
  /\ lastEvent' =
       [Event("images") EXCEPT !.prompt = c.prompt, !.n = n,
                               !.present = includes(history, c.prompt),
                               !.prevLen = Len(history)]
  /\ UNCHANGED <<variant, apiKey, promptValue, formatValue, qualityValue,
                 started, upscales, upscaled>>

ApiResolve(c, n) ==
  /\ c \in calls
  /\ c.pc = "api"
  /\ IF n = 0
     THEN Failed(c, NoImagesError, "noImages", results)
     ELSE /\ calls' = calls \ {c}
          /\ results' = results \o newCards(c, n)
          /\ history' = recordPrompt(history, c.prompt)
          /\ IF ~includes(history, c.prompt)
             THEN /\ localStorage' =
                       [k \in DOMAIN localStorage \cup {HistoryKey} |->
                          IF k = HistoryKey THEN JSONstringify(history')
                          ELSE localStorage[k]]
                  /\ historyList' = history'
             ELSE UNCHANGED <<localStorage, historyList>>
          /\ loading' = FALSE
          /\ controls' = setControlsDisabled(FALSE)
          /\ status' = setInnerText(status, "")
          /\ lastEvent' =
               [Event("images") EXCEPT !.prompt = c.prompt, !.n = n,
                                       !.present = includes(history, c.prompt),
                                       !.prevLen = Len(history)]
          /\ UNCHANGED <<variant, apiKey, promptValue, formatValue,
                         qualityValue, started, upscales, upscaled>>

\* the request of call c is rejected
ApiReject(c, error) ==
  /\ c \in calls
  /\ c.pc = "api"
  /\ Failed(c, error, "rejected", results)

\* ------------------------------------------------------------------- upscale

\* the options of a card's factor selector
FactorOptions == {"2x", "3x", "4x"}

\* the options the user picks
PickedFactors == {"2x", "4x"}

\* parseInt(upscaleSelect.value.replace('x', ''), 10)
parseFactor(value) ==
  CASE value = "2x" -> 2
    [] value = "3x" -> 3
    [] value = "4x" -> 4

\* the sizes getImageDimensions may report
ImageDimensions == {[width |-> 1024, height |-> 768]}

\* what the upscale response may carry: no image part, or one
UpscaleResponses ==
  {[hasImage |-> FALSE, data |-> <<>>, mime |-> ""],
   [hasImage |-> TRUE, data |-> <<"upscaled", 1>>, mime |-> "image/png"]}

\* the user picks a factor on card k
SelectFactor(k, value) ==
  /\ k \in DOMAIN results
  /\ value \in FactorOptions
  /\ results[k].hasSelect
  /\ ~results[k].selectDisabled
  /\ results' = [results EXCEPT ![k].selectValue = value]
  /\ lastEvent' = Event("input")
  /\ UNCHANGED <<variant, apiKey, promptValue, formatValue, qualityValue,
                 controls, loading, status, history, localStorage, historyList,
                 calls, started, upscales, upscaled>>

\* the card while its upscale request is outstanding
loadingCardKeepButton(card) ==
  [card EXCEPT !.selectDisabled = TRUE, !.buttonText = "Upscaling...",
               !.opacity = "0.5"]

loadingCard(card) ==
  [card EXCEPT !.buttonDisabled = TRUE, !.selectDisabled = TRUE,
               !.buttonText = "Upscaling...", !.opacity = "0.5"]

\* upscaleImage(card k, originalBase64, mimeType) up to its first await
upscaleImage(k, originalBase64, mimeType) ==
  LET card == results[k]
      upscaleFactor == parseFactor(card.selectValue)
  IN
  /\ card.hasSelect
  /\ IF ~apiKey
     THEN /\ status' = showStatusError(<<"API key is not configured.">>, FALSE)
          /\ results' =
               [results EXCEPT ![k] =
                  [loadingCard(card) EXCEPT !.buttonDisabled = FALSE,
                                            !.selectDisabled = FALSE,
                                            !.buttonText = "Upscale",
                                            !.opacity = "1"]]
          /\ lastEvent' = [Event("upscaleNoKey") EXCEPT !.card = k]
          /\ UNCHANGED <<upscales, upscaled>>
     ELSE \* await getImageDimensions(originalBase64, mimeType)
          /\ upscaled < MaxUpscales
          /\ results' = [results EXCEPT ![k] = loadingCard(card)]
          /\ upscales' = upscales \cup
               {[id |-> upscaled + 1, card |-> k, pc |-> "dimensions",
                 data |-> originalBase64, mime |-> mimeType,
                 factor |-> upscaleFactor,
                 target |-> [width |-> 0, height |-> 0]]}
          /\ upscaled' = upscaled + 1
          /\ lastEvent' = [Event("upscaleRequested") EXCEPT !.card = k]
          /\ UNCHANGED status
  /\ UNCHANGED <<variant, apiKey, promptValue, formatValue, qualityValue,
                 controls, loading, history, localStorage, historyList, calls,
                 started>>

\* a click on the action button of card k
ClickCardButton(k) ==
  /\ k \in DOMAIN results
  /\ ~results[k].buttonDisabled
  /\ IF results[k].onclick.kind = "upscale"
     THEN upscaleImage(k, results[k].onclick.data, results[k].onclick.mime)
     ELSE \* the download link is clicked
          /\ lastEvent' = [Event("download") EXCEPT !.card = k]
          /\ UNCHANGED <<variant, apiKey, promptValue, formatValue,
                         qualityValue, controls, loading, status, history,
                         localStorage, historyList, results, calls, started,
                         upscales, upscaled>>

\* the image of upscale call u has loaded: the request is sent
DimensionsLoaded(u, size) ==
  /\ u \in upscales
  /\ u.pc = "dimensions"
  /\ upscales' = (upscales \ {u}) \cup
       {[u EXCEPT !.pc = "api",
                  !.target = [width |-> size.width * u.factor,
                              height |-> size.height * u.factor]]}
  /\ lastEvent' = [Event("upscaleSent") EXCEPT !.card = u.card]
  /\ UNCHANGED <<variant, apiKey, promptValue, formatValue, qualityValue,
                 controls, loading, status, history, localStorage, historyList,
                 results, calls, started, upscaled>>

\* the card after the catch block of an upscale call
failedCardSelectDisabled(card, u) ==
  [card EXCEPT !.buttonDisabled = FALSE,
               !.buttonText = "Upscale Failed - Retry", !.opacity = "1",
               !.onclick = [kind |-> "upscale", data |-> u.data,
                            mime |-> u.mime, factor |-> 0],
               !.failed = [data |-> u.data, mime |-> u.mime, factor |-> u.factor]]

failedCard(card, u) ==
  [card EXCEPT !.buttonDisabled = FALSE, !.selectDisabled = FALSE,
               !.buttonText = "Upscale Failed - Retry", !.opacity = "1",
               !.onclick = [kind |-> "upscale", data |-> u.data,
                            mime |-> u.mime, factor |-> 0],
               !.failed = [data |-> u.data, mime |-> u.mime, factor |-> u.factor]]

\* the rest of upscale call u after a throw inside its try block
UpscaleFailedNoCatch(u) ==
  /\ upscales' = upscales \ {u}
  /\ lastEvent' = [Event("upscaleFailed") EXCEPT !.card = u.card]
  /\ UNCHANGED <<variant, apiKey, promptValue, formatValue, qualityValue,
                 controls, loading, status, history, localStorage, historyList,
                 results, calls, started, upscaled>>

UpscaleFailed(u) ==
  /\ upscales' = upscales \ {u}
  /\ results' = [results EXCEPT ![u.card] = failedCard(results[u.card], u)]
  /\ lastEvent' = [Event("upscaleFailed") EXCEPT !.card = u.card]
  /\ UNCHANGED <<variant, apiKey, promptValue, formatValue, qualityValue,
                 controls, loading, status, history, localStorage, historyList,
                 calls, started, upscaled>>

\* the image of upscale call u cannot be loaded
DimensionsFailed(u) ==
  /\ u \in upscales
  /\ u.pc = "dimensions"
  /\ UpscaleFailed(u)

\* the card after a successful upscale
upscaledCardDownloadsOriginal(card, u, part) ==
  [card EXCEPT !.src = [mime |-> part.mime, data |-> part.data],
               !.opacity = "1", !.hasSelect = FALSE,
               !.buttonText = "Download", !.buttonDisabled = FALSE,
               !.onclick = [kind |-> "download", data |-> u.data,
                            mime |-> u.mime, factor |-> u.factor]]

upscaledCard(card, u, part) ==
  [card EXCEPT !.src = [mime |-> part.mime, data |-> part.data],
               !.opacity = "1", !.hasSelect = FALSE,
               !.buttonText = "Download", !.buttonDisabled = FALSE,
               !.onclick = [kind |-> "download", data |-> part.data,
                            mime |-> part.mime, factor |-> u.factor]]

\* the API answers the request of upscale call u
UpscaleResolve(u, part) ==
  /\ u \in upscales
  /\ u.pc = "api"
  /\ IF ~part.hasImage
     THEN UpscaleFailed(u)
     ELSE /\ upscales' = upscales \ {u}
          /\ results' =
               [results EXCEPT ![u.card] = upscaledCard(results[u.card], u, part)]
          /\ lastEvent' = [Event("upscaled") EXCEPT !.card = u.card]
          /\ UNCHANGED <<variant, apiKey, promptValue, formatValue,
                         qualityValue, controls, loading, status, history,
                         localStorage, historyList, calls, started, upscaled>>

\* the request of upscale call u is rejected
UpscaleReject(u) ==
  /\ u \in upscales
  /\ u.pc = "api"
  /\ UpscaleFailed(u)

\* ------------------------------------------------------------ specification

\* the generation controller of both variants: everything the user can do
\* with the form and the history list, and every outcome of the requests
Next ==
  \/ \E v \in TypedValues : TypePrompt(v)
  \/ \E q \in {"standard", "high"} : SelectQuality(q)
  \/ ClickGenerate
  \/ PressEnter
  \/ \E i \in 1..HistoryCap : ClickHistoryItem(i)
  \/ \E c \in calls : DialogClosed(c)
  \/ \E c \in calls, n \in ImageCounts : ApiResolve(c, n)
  \/ \E c \in calls, e \in ApiErrors : ApiReject(c, e)

Spec == Init /\ [][Next]_vars

\* the page of src/index.tsx with a key and no stored history
InitUpscale ==
  /\ Init
  /\ variant = "upscale"
  /\ apiKey
  /\ localStorage = NoStorage

\* the cards of the upscale variant: generations of one prompt that return
\* one image each, and everything the user can do with the cards
NextUpscale ==
  \/ TypePrompt(RedFox)
  \/ \E f \in Formats : SelectFormat(f)
  \/ ClickGenerate
  \/ \E c \in calls : ApiResolve(c, 1)
  \/ \E k \in DOMAIN results, v \in PickedFactors : SelectFactor(k, v)
  \/ \E k \in DOMAIN results : ClickCardButton(k)
  \/ \E u \in upscales, size \in ImageDimensions : DimensionsLoaded(u, size)
  \/ \E u \in upscales : DimensionsFailed(u)
  \/ \E u \in upscales, part \in UpscaleResponses : UpscaleResolve(u, part)
  \/ \E u \in upscales : UpscaleReject(u)

SpecUpscale == InitUpscale /\ [][NextUpscale]_vars

\* a promise the upscale call with identifier i waits for is settled
UpscaleSettles(i) ==
  \E u \in upscales :
    /\ u.id = i
    /\ \/ \E size \in ImageDimensions : DimensionsLoaded(u, size)
       \/ DimensionsFailed(u)
       \/ \E part \in UpscaleResponses : UpscaleResolve(u, part)
       \/ UpscaleReject(u)

\* the upscale calls on the cards of generations of one prompt, with the
\* selectors of the form and of the cards left as they are
NextCards ==
  \/ TypePrompt(RedFox)
  \/ ClickGenerate
  \/ \E c \in calls : ApiResolve(c, 1)
  \/ \E k \in DOMAIN results : ClickCardButton(k)
  \/ \E u \in upscales, size \in ImageDimensions : DimensionsLoaded(u, size)
  \/ \E u \in upscales : DimensionsFailed(u)
  \/ \E u \in upscales, part \in UpscaleResponses : UpscaleResolve(u, part)
  \/ \E u \in upscales : UpscaleReject(u)

\* the cards, when every promise an upscale call waits for is settled in the
\* end: the image load fires onload or onerror, the request resolves or rejects
SpecCardsFair ==
  /\ InitUpscale
  /\ [][NextCards]_vars
  /\ \A i \in 1..MaxUpscales : WF_vars(UpscaleSettles(i))

\* the generation controller on a page that has loaded an oversized history
InitOversized == InitWith(OversizedStorages)

SpecOversized == InitOversized /\ [][Next]_vars

\* ------------------------------------------------------------------ claims

\* the generate() calls whose API request is outstanding
ApiCalls == {c \in calls : c.pc = "api"}

AllControlsEnabled == \A c \in DOMAIN controls : ~controls[c]

AllControlsDisabled == \A c \in DOMAIN controls : controls[c]

\* the history the stored text stands for (no item: the empty history)
PersistedHistory ==
  IF HistoryKey \in DOMAIN localStorage
  THEN JSONparse(localStorage[HistoryKey])
  ELSE <<>>

NoDuplicates(h) == Cardinality({h[i] : i \in DOMAIN h}) = Len(h)

Occurrences(h, p) == Cardinality({i \in DOMAIN h : h[i] = p})

IsBlank(value) == \A i \in DOMAIN value : value[i] \in WhiteSpace

\* the events that are the first step of a generate() call
GenerateCalled(e) ==
  e.kind \in {"noKeyDialog", "noKeyStatic", "emptyPrompt", "requested"}

\* the events with which a generate() call returns
GenerateReturned(e) ==
  e.kind \in {"noKeyStatic", "dialogClosed", "emptyPrompt", "images",
              "noImages", "rejected"}

\* the error messages that contain "403" or "permission"
IsPermissionMessage(m) == m \in {"403 permission denied"}

\* C1: the in-memory history and the persisted history never hold more than
\* 50 entries and never hold the same string twice, whatever generate() calls
\* are made and however their API completions interleave.
C1_HistoryCappedAndUnique ==
  LET persisted == PersistedHistory
  IN  /\ Len(history) <= HistoryCap
      /\ NoDuplicates(history)
      /\ Len(persisted) <= HistoryCap
      /\ NoDuplicates(persisted)

\* a call has recorded a new prompt into a full history while another call's
\* request is outstanding
C1_Witness ==
  /\ lastEvent.kind = "images"
  /\ ~lastEvent.present
  /\ lastEvent.prevLen = HistoryCap
  /\ ApiCalls # {}

\* C2: a successful generate() whose prompt is already in the history leaves
\* the history's length as it was, with the prompt in it once.
C2_PresentPromptNotDuplicated ==
  (lastEvent.kind = "images" /\ lastEvent.present)
    => /\ Len(history) = lastEvent.prevLen
       /\ Occurrences(history, lastEvent.prompt) = 1

\* "dog" has been recorded into a full history that holds "dog"
C2_Witness ==
  /\ lastEvent.kind = "images"
  /\ lastEvent.present
  /\ lastEvent.prompt = Dog
  /\ lastEvent.prevLen = HistoryCap
  /\ Len(history) = HistoryCap

\* C3: a generate() call that finds an empty or whitespace-only prompt field
\* issues no API request, leaves the in-memory and the persisted history as
\* they are, and neither disables the controls nor shows the loading overlay.
C3_BlankPromptDoesNothing ==
  [][(GenerateCalled(lastEvent') /\ IsBlank(promptValue'))
       => /\ ApiCalls' = ApiCalls
          /\ history' = history
          /\ localStorage' = localStorage
          /\ controls' = controls
          /\ loading' = loading]_vars

\* generate() has been called with a whitespace-only prompt, with a history
C3_Witness ==
  /\ lastEvent.kind = "emptyPrompt"
  /\ promptValue = <<" ", "\n">>
  /\ history # <<>>

\* C4: when a generate() call has returned, whatever its outcome, the six
\* form controls are enabled and the loading overlay is hidden.
C4_ControlsRestoredOnReturn ==
  GenerateReturned(lastEvent) => (AllControlsEnabled /\ ~loading)

\* a call whose request was rejected has returned
C4_Witness == lastEvent.kind = "rejected" /\ AllControlsEnabled

\* the status area prompts for the selection of a key
ShowsKeyReselection ==
  \/ \E c \in calls : c.pc = "dialog"
  \/ status.text \in
       {<<"API key is not configured. Please add your API key.">>,
        <<"API key selection is not available. Please configure the API_KEY environment variable.">>}

\* C5: when the API call of generate() fails with a message that contains
\* "403" or "permission", the status area ends up with the key-reselection
\* prompt and not with the generic failure message and its retry button.
C5_PermissionErrorPromptsForKey ==
  (lastEvent.kind = "rejected" /\ IsPermissionMessage(lastEvent.message))
    => (ShowsKeyReselection /\ ~status.retry)

\* C6: when the API call of generate() fails with any other error, or returns
\* no image, the status area shows, once generate() has returned, the generic
\* failure message with the retry action.
C6_FailureShowsRetry ==
  (lastEvent.kind \in {"rejected", "noImages"}
     /\ ~IsPermissionMessage(lastEvent.message))
    => /\ status.text = <<"Generation failed: ", lastEvent.message>>
       /\ status.retry

\* C7: whenever a generation request is outstanding, all form controls are
\* disabled and the loading overlay is shown, also when calls overlap.
C7_ControlsDisabledWhileInFlight ==
  ApiCalls # {} => (AllControlsDisabled /\ loading)

\* C8: while a generation request is in flight the generate button and the
\* prompt field are disabled, so that neither can start a second request
\* (a request started from a history item can still overlap).
C8_TriggersDisabledWhileInFlight ==
  ApiCalls # {} => (controls["generateButton"] /\ controls["promptEl"])

\* the upscale calls of card k that are suspended
UpscalesOf(k) == {u \in upscales : u.card = k}

\* C9: a card with an outstanding upscale request has its action button and
\* its factor selector disabled, and has one such request only.
C9_CardDisabledWhileUpscaling ==
  \A u \in upscales :
    /\ results[u.card].hasSelect
    /\ results[u.card].buttonDisabled
    /\ results[u.card].selectDisabled
    /\ UpscalesOf(u.card) = {u}

\* two cards have an upscale request outstanding, one of them sent
C9_Witness ==
  /\ Cardinality(upscales) = 2
  /\ \E u \in upscales : u.pc = "api"

\* C10 as stated: after a failed upscale the card is interactive again, and a
\* retry runs with the image bytes, the mime type and the factor of the
\* failed attempt, whatever the user did with the card in between.
C10_RetryRepeatsFailedAttempt ==
  /\ \A k \in DOMAIN results :
       (lastEvent.kind = "upscaleFailed" /\ lastEvent.card = k)
         => (~results[k].buttonDisabled /\ ~results[k].selectDisabled)
  /\ \A u \in upscales :
       results[u.card].failed # NoAttempt
         => /\ u.data = results[u.card].failed.data
            /\ u.mime = results[u.card].failed.mime
            /\ u.factor = results[u.card].failed.factor

\* C10 as amended: after a failed upscale the card is interactive again, and
\* a retry runs with the image bytes and the mime type of the failed attempt
\* and with the factor the card's selector holds when the retry is clicked.
C10_RetryUsesSelectedFactor ==
  /\ \A k \in DOMAIN results :
       (lastEvent.kind = "upscaleFailed" /\ lastEvent.card = k)
         => /\ ~results[k].buttonDisabled
            /\ ~results[k].selectDisabled
            /\ results[k].onclick.kind = "upscale"
  /\ \A u \in upscales :
       results[u.card].failed # NoAttempt
         => /\ u.data = results[u.card].failed.data
            /\ u.mime = results[u.card].failed.mime
            /\ u.factor = parseFactor(results[u.card].selectValue)

\* a retry is outstanding with another factor than the failed attempt's,
\* after the format selector of the form has been changed too
C10_Witness ==
  \E u \in upscales :
    /\ results[u.card].failed # NoAttempt
    /\ u.factor # results[u.card].failed.factor
    /\ formatValue # u.mime

\* the image parts an upscale response may carry
UpscaledImages == {part \in UpscaleResponses : part.hasImage}

\* the bytes of the images the generation API returns
OriginalBytes == {ImageBytes(i) : i \in ImageCounts \ {0}}

\* card k of the upscale variant has been upscaled
Succeeded(k) == variant = "upscale" /\ ~results[k].hasSelect

\* C11: once an upscale has succeeded the card has no factor selector, shows
\* the new image, and its enabled action button downloads the new image's
\* bytes and not the original's; from then on nothing changes the card and no
\* click on it starts an upscale request.
C11_SucceededIsTerminal ==
  /\ [](\A k \in DOMAIN results :
          Succeeded(k)
            => /\ \E part \in UpscaledImages :
                    results[k].src = [mime |-> part.mime, data |-> part.data]
               /\ results[k].src.data \notin OriginalBytes
               /\ ~results[k].buttonDisabled
               /\ results[k].buttonText = "Download"
               /\ results[k].onclick.kind = "download"
               /\ results[k].onclick.data = results[k].src.data
               /\ results[k].onclick.mime = results[k].src.mime
               /\ UpscalesOf(k) = {})
  /\ [][\A k \in DOMAIN results :
          Succeeded(k)
            => /\ results'[k] = results[k]
               /\ {u \in upscales' : u.card = k} = {}]_vars

\* the download button of an upscaled card has been clicked, after an earlier
\* attempt on the card had failed
C11_Witness ==
  \E k \in DOMAIN results :
    /\ Succeeded(k)
    /\ lastEvent.kind = "download"
    /\ lastEvent.card = k
    /\ results[k].failed # NoAttempt

\* the text has no white space at either end and is not empty
IsTrimmed(p) ==
  /\ p # <<>>
  /\ p[1] \notin WhiteSpace
  /\ p[Len(p)] \notin WhiteSpace

\* C12: when the API returns n >= 1 images for a generate() call, exactly n
\* cards are appended to the results grid, one per returned image in the
\* response's order, and the trimmed prompt is in the history; with an empty
\* history, the prompt "a red fox" and one image, one card is appended and
\* the history becomes ["a red fox"].
C12_CardsAppendedAndPromptRecorded ==
  [][/\ lastEvent'.kind = "requested"
          => \E c \in calls' \ calls :
               /\ c.prompt = lastEvent'.prompt
               /\ IsTrimmed(c.prompt)
               /\ TrimStart(promptValue') = c.prompt \o
                    SubSeq(TrimStart(promptValue'), Len(c.prompt) + 1,
                           Len(TrimStart(promptValue')))
               /\ IsBlank(SubSeq(TrimStart(promptValue'), Len(c.prompt) + 1,
                                 Len(TrimStart(promptValue'))))
     /\ lastEvent'.kind = "images"
          => \E c \in calls \ calls' :
               /\ lastEvent'.n >= 1
               /\ c.prompt = lastEvent'.prompt
               /\ Len(results') = Len(results) + lastEvent'.n
               /\ SubSeq(results', 1, Len(results)) = results
               /\ \A i \in 1..lastEvent'.n :
                    /\ results'[Len(results) + i].src.data = ImageBytes(i)
                    /\ results'[Len(results) + i].alt = c.finalPrompt
               /\ includes(history', c.prompt)
               /\ (history = <<>> /\ c.prompt = RedFox /\ lastEvent'.n = 1)
                    => history' = <<RedFox>>]_vars

\* "a red fox" has been generated with one image from an empty history and an
\* empty grid
C12_Witness ==
  /\ lastEvent.kind = "images"
  /\ lastEvent.n = 1
  /\ lastEvent.prompt = RedFox
  /\ lastEvent.prevLen = 0
  /\ history = <<RedFox>>
  /\ PersistedHistory = <<RedFox>>
  /\ Len(results) = 1

\* the generate() calls that wait for the key-selection dialog
DialogCalls == {c \in calls : c.pc = "dialog"}

\* C13: a generate() call that finds no API key makes no API request and
\* leaves the controls enabled and the overlay hidden; when the host's
\* key-selection hook is absent the status ends up with the static message
\* about the API_KEY environment variable, and when the hook is present the
\* call invokes it (and waits for it) instead.
C13_NoKeyDegradesToStaticMessage ==
  [][(GenerateCalled(lastEvent') /\ ~apiKey)
       => /\ lastEvent'.kind \in {"noKeyStatic", "noKeyDialog"}
          /\ ApiCalls' = {}
          /\ controls' = controls
          /\ AllControlsEnabled'
          /\ ~loading'
          /\ history' = history
          /\ lastEvent'.kind = "noKeyStatic"
               => /\ calls' = calls
                  /\ status' =
                       [text |-> <<"API key selection is not available. Please configure the API_KEY environment variable.">>,
                        retry |-> FALSE]
          /\ lastEvent'.kind = "noKeyDialog"
               => /\ Cardinality(DialogCalls') = Cardinality(DialogCalls) + 1
                  /\ status' =
                       [text |-> <<"API key is not configured. Please add your API key.">>,
                        retry |-> FALSE]]_vars

\* generate() has found neither a key nor the hook, with a prompt typed and
\* while the dialog of an earlier call is still open
C13_Witness ==
  /\ ~apiKey
  /\ lastEvent.kind = "noKeyStatic"
  /\ lastEvent.prompt = RedFox
  /\ DialogCalls # {}

\* C14: when a prompt that was not in the history has been recorded, the
\* history holds at most 50 entries, whatever its length was before, also
\* when the history loaded at startup held more than 50 entries.
C14_RecordTruncatesToCap ==
  (lastEvent.kind = "images" /\ ~lastEvent.present)
    => Len(history) <= HistoryCap

\* C15: a successful generate() whose prompt was not in the history puts the
\* prompt at index 0 and keeps every other entry in its order; from a history
\* of 50 entries exactly the last entry is dropped.
C15_NewPromptAtFrontOldestDropped ==
  [][(lastEvent'.kind = "images" /\ ~lastEvent'.present)
       => /\ history'[1] = lastEvent'.prompt
          /\ Len(history) < HistoryCap
               => SubSeq(history', 2, Len(history')) = history
          /\ Len(history) = HistoryCap
               => /\ Len(history') = HistoryCap
                  /\ SubSeq(history', 2, HistoryCap) =
                       SubSeq(history, 1, HistoryCap - 1)]_vars

\* "a red fox" has been recorded into the stored history of 50 entries: the
\* 49th entry is now the last
C15_Witness ==
  /\ lastEvent.kind = "images"
  /\ ~lastEvent.present
  /\ lastEvent.prevLen = HistoryCap
  /\ history[1] = RedFox
  /\ history[2] = Cat
  /\ history[HistoryCap] = StoredPrompt(HistoryCap - 1)

\* C16: a generate() call whose request is rejected or answered with no image
\* appends no card and leaves the in-memory history, the persisted history
\* and the rendered history list as they were; only the completion of a
\* request that returned at least one image changes the history.
C16_FailureLeavesHistoryAndGrid ==
  [][/\ lastEvent'.kind \in {"rejected", "noImages"}
          => /\ results' = results
             /\ history' = history
             /\ localStorage' = localStorage
             /\ historyList' = historyList
     /\ (history' # history \/ localStorage' # localStorage)
          => /\ lastEvent'.kind = "images"
             /\ lastEvent'.n >= 1]_vars

\* a request for a prompt that is not in the history has returned no image,
\* with cards in the grid and a history
C16_Witness ==
  /\ lastEvent.kind = "noImages"
  /\ ~lastEvent.present
  /\ results # <<>>
  /\ history # <<>>

\* C17: between handler steps the JSON text stored under the history key
\* decodes to the in-memory history (no stored item standing for the empty
\* history): after the load at startup and after every step of every
\* generate() call, overlapping calls included.
C17_PersistedEqualsInMemory == PersistedHistory = history

\* a call has stored a history that holds the prompt with a quote, a
\* backslash and a line break, while another call's request is outstanding
C17_Witness ==
  /\ lastEvent.kind = "images"
  /\ ~lastEvent.present
  /\ Len(history) = HistoryCap
  /\ history[4] = Quoted
  /\ HistoryKey \in DOMAIN localStorage
  /\ localStorage[HistoryKey] = JSONstringify(history)
  /\ ApiCalls # {}

\* the events with which an upscaleImage call finishes
UpscaleFinished(e) == e.kind \in {"upscaleNoKey", "upscaleFailed", "upscaled"}

\* C18: when an upscaleImage call has finished, for lack of a key, with a
\* failure or with a new image, the card's action button is enabled; and when
\* every promise the call waits for is settled in the end, a card with an
\* outstanding upscale request comes to have none, with its button enabled.
C18_UpscaleEndsInteractive ==
  /\ [](UpscaleFinished(lastEvent)
          => /\ ~results[lastEvent.card].buttonDisabled
             /\ UpscalesOf(lastEvent.card) = {})
  /\ \A k \in 1..MaxCalls :
       (UpscalesOf(k) # {})
         ~> (/\ UpscalesOf(k) = {}
             /\ k \in DOMAIN results
             /\ ~results[k].buttonDisabled)

\* an upscale has failed on one card and one has succeeded on another
C18_Witness ==
  /\ UpscaleFinished(lastEvent)
  /\ \E k \in DOMAIN results :
       results[k].buttonText = "Upscale Failed - Retry"
  /\ \E k \in DOMAIN results : Succeeded(k)

\* C19: in the quality variant, whenever no generation request is outstanding
\* every card of the results grid has been produced by the generate() call
\* that started last, also after calls started from history items overlapped.
C19_GridHoldsLatestCallOnly ==
  (variant = "quality" /\ ApiCalls = {})
    => \A k \in DOMAIN results : results[k].call = started

\* C20: a successful generate() whose prompt is already in the history leaves
\* the history as it is, every position included, and writes neither local
\* storage nor the history list; so the entry a full history loses to a new
\* prompt is its last one, the one recorded first, however recently used.
C20_PresentPromptLeavesHistoryAlone ==
  [][/\ (lastEvent'.kind = "images" /\ lastEvent'.present)
          => /\ history' = history
             /\ localStorage' = localStorage
             /\ historyList' = historyList
     /\ (lastEvent'.kind = "images" /\ ~lastEvent'.present
           /\ Len(history) = HistoryCap)
          => ~includes(history', history[HistoryCap])]_vars

\* the last entry of a full history has been generated again, and is still
\* the last entry
C20_Witness ==
  /\ lastEvent.kind = "images"
  /\ lastEvent.present
  /\ Len(history) = HistoryCap
  /\ history[HistoryCap] = lastEvent.prompt
  /\ history[1] # lastEvent.prompt

\* C21: a generation started by a click on a history item that succeeds
\* leaves the in-memory and the persisted history as they were; and every
\* entry generate() records is the trimmed user prompt, in the quality
\* variant without the quality suffix.
C21_HistoryClickLeavesHistory ==
  [][lastEvent'.kind = "images"
       => \A c \in calls \ calls' :
            /\ c.fromHistory
                 => /\ history' = history
                    /\ localStorage' = localStorage
            /\ ~lastEvent'.present
                 => /\ history'[1] = c.prompt
                    /\ IsTrimmed(history'[1])
                    /\ c.finalPrompt # c.prompt => history'[1] # c.finalPrompt]_vars

\* C21, the half about what is recorded: every entry generate() records is
\* the trimmed user prompt, in the quality variant without the quality suffix.
C21_RecordsTrimmedUserPrompt ==
  [][(lastEvent'.kind = "images" /\ ~lastEvent'.present)
       => \A c \in calls \ calls' :
            /\ history'[1] = c.prompt
            /\ IsTrimmed(history'[1])
            /\ c.finalPrompt # c.prompt => history'[1] # c.finalPrompt]_vars

\* a generation started from a history item has recorded its prompt, which a
\* call that overlapped it had evicted
C21_EvictedWhileInFlight ==
  /\ lastEvent.kind = "images"
  /\ ~lastEvent.present
  /\ lastEvent.prevLen = HistoryCap
  /\ promptValue = lastEvent.prompt
  /\ history[1] = StoredPrompt(HistoryCap)
  /\ history[2] = RedFox

====
